---- MODULE Spec2Model ----
(***************************************************************************)
(* evolverx: failure-driven regeneration of a wrapped function.            *)
(*                                                                         *)
(*   evolving.py   wrapper / _evolve  (the orchestrator state machine)     *)
(*   telemetry.py  record_failure / reset_failures / get_failures          *)
(*   persist.py    write_cache / load_from_cache / clean_cache             *)
(*   sandbox.py    exec_in_sandbox                                         *)
(*                                                                         *)
(* Text is modelled as a sequence of lines.  A line is a record            *)
(*   [ind |-> number of leading blanks,                                    *)
(*    s   |-> the rest of the line as a sequence of tokens (strings),      *)
(*    nl  |-> its terminator: "LF", "CRLF", "CR" or "NONE"]                *)
(* Names (module and function names, file names) are sequences of          *)
(* one-character strings, so that str.replace and str.split are computed.  *)
(***************************************************************************)
EXTENDS Integers, Sequences, FiniteSets, TLC

VARIABLES
    fs,         \* the cache root on disk: [files: path -> content, dirs: set of directories]
    htmlSeq,    \* difflib.HtmlDiff._default_prefix, a per-process counter
    failures,   \* telemetry._failures: identity -> consecutive-failure count
    impl,       \* func.__code__ of every wrapped function (as the text it was compiled from)
    wrapped,    \* identities whose decorator has run in this process
    cfg,        \* the EvolverxConfig attached to each identity
    pc,         \* position of the (single) calling thread
    call,       \* locals of the call in progress (wrapper and _evolve frames)
    outcome,    \* how the last finished call ended
    hist        \* history of the call in progress or last finished (observation only)

vars == <<fs, htmlSeq, failures, impl, wrapped, cfg, pc, call, outcome, hist>>

-----------------------------------------------------------------------------
(* Bounds of the model *)

\* largest max_attempts a configuration is given
MaxBudget == 3
\* a call starts only while the identity's count is below this cap
MaxFailures == 4
\* generation timestamps are drawn from 0..MaxTime
MaxTime == 1
\* HtmlDiff.make_file is called at most this many times per process
MaxSaves == 2

-----------------------------------------------------------------------------
(* Text *)

Line(ind, s, nl) == [ind |-> ind, s |-> s, nl |-> nl]

\* the absent optional argument (None)
NoSrc == << Line(-1, <<"None">>, "NONE") >>

\* str.replace("\r\n", "\n").replace("\r", "\n")
NormalizeNewlines(t) ==
    [i \in DOMAIN t |->
        [t[i] EXCEPT !.nl = IF @ \in {"CRLF", "CR"} THEN "LF" ELSE @]]

\* Path.write_text(..., encoding="utf-8") on a POSIX host: "\n" is written as os.linesep = "\n"
WriteText(t) == t

\* Path.read_text(..., encoding="utf-8"): universal newlines, "\r\n" and "\r" are read as "\n"
ReadText(t) == NormalizeNewlines(t)

Range(f) == {f[i] : i \in DOMAIN f}

\* ln.lstrip().startswith(tok)
StartsWith(ln, tok) == Len(ln.s) > 0 /\ ln.s[1] = tok

\* not ln.strip()
IsBlank(ln) == Len(ln.s) = 0

-----------------------------------------------------------------------------
(* persist.py: where the artifacts of an identity live *)

\* module.replace(".", "_")
SafeModule(module) ==
    [i \in DOMAIN module |-> IF module[i] = "." THEN "_" ELSE module[i]]

\* f"{safe_module}__{func}"
Stem(module, func) == SafeModule(module) \o <<"_", "_">> \o func

cache_path(module, func) == [dir |-> "base", name |-> Stem(module, func) \o <<".py">>]

original_path(module, func) ==
    [dir |-> "originals", name |-> Stem(module, func) \o <<".py">>]

diff_path(module, func) == [dir |-> "diffs", name |-> Stem(module, func) \o <<".diff">>]

diff_md_path(module, func) == [dir |-> "diffs", name |-> Stem(module, func) \o <<".md">>]

diff_html_path(module, func) ==
    [dir |-> "diffs", name |-> Stem(module, func) \o <<".html">>]

meta_path(module, func) ==
    [dir |-> "diffs", name |-> Stem(module, func) \o <<".meta.json">>]

\* the six artifact paths of an identity, in the order clean_cache lists them
ArtifactPaths(module, func) ==
    << cache_path(module, func), original_path(module, func), diff_path(module, func),
       diff_md_path(module, func), diff_html_path(module, func), meta_path(module, func) >>

\* p.exists()
Exists(fsv, p) == p \in DOMAIN fsv.files

EmptyFs == [files |-> [p \in {} |-> <<>>], dirs |-> {}]

-----------------------------------------------------------------------------
(* persist.py: write_cache *)

\* index of the first line with ln.lstrip().startswith("def "), 0 for None
DefIdx(ls) ==
    LET S == {i \in DOMAIN ls : StartsWith(ls[i], "def ")}
    IN  IF S = {} THEN 0 ELSE CHOOSE i \in S : \A j \in S : i <= j

\* the contiguous "@" lines directly above the def line, in source order
ExtractDecoratorBlock(src) ==
    LET ls == NormalizeNewlines(src)
        d == DefIdx(ls)
        first == CHOOSE j \in 1..d :
                    /\ \A k \in j..(d - 1) : StartsWith(ls[k], "@")
                    /\ (j = 1 \/ ~StartsWith(ls[j - 1], "@"))
    IN  IF d = 0 THEN <<>> ELSE SubSeq(ls, first, d - 1)

\* f"before:{module}.{func}" and f"after:{module}.{func}"
DiffLabel(side, module, func) == <<side>> \o module \o <<".">> \o func

\* "".join(difflib.unified_diff(a, b, fromfile, tofile, fromfiledate=ts, tofiledate=ts, n=3)):
\* nothing when the two line lists are equal; otherwise the two header lines, which
\* carry the timestamp, and the hunks, which are a function of the two line lists
UnifiedDiff(a, b, fromfile, tofile, ts) ==
    IF a = b THEN <<>>
    ELSE << [tag |-> "---", file |-> fromfile, date |-> ts, a |-> <<>>, b |-> <<>>],
            [tag |-> "+++", file |-> tofile, date |-> ts, a |-> <<>>, b |-> <<>>],
            [tag |-> "@@", file |-> <<>>, date |-> 0, a |-> a, b |-> b] >>

\* the markdown document: title, "_Generated: {ts}_", the fenced diff
MarkdownDoc(module, func, ts, diff_txt) ==
    [title |-> module \o <<".">> \o func, generated |-> ts, diff |-> diff_txt]

\* difflib.HtmlDiff(...).make_file(a, b, fromdesc, todesc, context=True, numlines=3);
\* the anchors of the table are numbered with the per-process counter _default_prefix
HtmlFile(a, b, module, func, seq) ==
    [from |-> a, to |-> b, desc |-> module \o <<".">> \o func, prefix |-> seq]

\* json.dumps(meta, indent=2)
MetaDoc(module, func, ts) ==
    [module |-> module, func |-> func, safe_module |-> SafeModule(module),
     paths |-> [cached |-> cache_path(module, func),
                original |-> original_path(module, func),
                diff |-> diff_path(module, func),
                diff_md |-> diff_md_path(module, func),
                diff_html |-> diff_html_path(module, func)],
     generated_utc |-> ts]

\* a write that opens the file for appending
FileContentAppend(fsv, p, text) ==
    IF Exists(fsv, p) THEN fsv.files[p] \o WriteText(text) ELSE WriteText(text)

\* the content of p after p.write_text(text): whatever the file held is replaced
FileContent(fsv, p, text) == WriteText(text)

\* the file system after write_cache(module, func, fn_src, base, original_src) run at
\* time ts with HtmlDiff._default_prefix = seq
write_cache(fsv, seq, module, func, fn_src, original_src, ts) ==
    LET candidate == cache_path(module, func) :>
                        FileContent(fsv, cache_path(module, func), fn_src)
        before_lines == NormalizeNewlines(original_src)
        decor == ExtractDecoratorBlock(original_src)
        after_body_lines == NormalizeNewlines(fn_src)
        after_lines == IF decor # <<>> THEN decor \o after_body_lines ELSE after_body_lines
        diff_txt == UnifiedDiff(before_lines, after_lines,
                                DiffLabel("before:", module, func),
                                DiffLabel("after:", module, func), ts)
        artifacts ==
            (original_path(module, func) :> WriteText(original_src))
            @@ (diff_path(module, func) :> diff_txt)
            @@ (diff_md_path(module, func) :> MarkdownDoc(module, func, ts, diff_txt))
            @@ (diff_html_path(module, func) :>
                    HtmlFile(before_lines, after_lines, module, func, seq))
            @@ (meta_path(module, func) :> MetaDoc(module, func, ts))
    IN  IF original_src = NoSrc
        THEN [files |-> candidate @@ fsv.files, dirs |-> fsv.dirs \cup {"base"}]
        ELSE [files |-> candidate @@ artifacts @@ fsv.files,
              dirs |-> fsv.dirs \cup {"base", "originals", "diffs"}]

\* HtmlDiff._default_prefix after write_cache: make_file is called once per save with a snapshot
HtmlSeqAfter(seq, original_src) == IF original_src = NoSrc THEN seq ELSE seq + 1

-----------------------------------------------------------------------------
(* persist.py: load_from_cache *)

\* compile(text, ...): the code object depends on the text up to its line terminators
Compile(text) == NormalizeNewlines(text)

\* exec of the file's code leaves a function named func in the namespace
DefinesFn(text, func) ==
    \E i \in DOMAIN text : text[i].ind = 0 /\ text[i].s = <<"def ">> \o func \o <<"(x):">>

\* a load_from_cache that adopts nothing
NeverAdopt(fsv, module, func, code) == code

\* func.__code__ after load_from_cache(func, base), given func.__code__ = code before it
load_from_cache(fsv, module, func, code) ==
    LET p == cache_path(module, func)
        text == ReadText(fsv.files[p])
    IN  IF ~Exists(fsv, p) THEN code
        ELSE IF DefinesFn(text, func) THEN Compile(text)
        ELSE code

\* the value load_from_cache returns
load_from_cache_result(fsv, module, func) ==
    /\ Exists(fsv, cache_path(module, func))
    /\ DefinesFn(ReadText(fsv.files[cache_path(module, func)]), func)

-----------------------------------------------------------------------------
(* persist.py: clean_cache *)

Restrict(f, S) == [p \in S |-> f[p]]

\* next(d.iterdir()) raises StopIteration: the directory holds no file and no directory
DirEmpty(files, dirs, d) ==
    /\ \A p \in DOMAIN files : p.dir # d
    /\ d = "base" => dirs \subseteq {"base"}

\* one round of the pruning loop: iterdir of a missing directory raises
\* FileNotFoundError, which the loop does not catch
PruneDir(st, d) ==
    IF st.raised THEN st
    ELSE IF d \notin st.dirs THEN [st EXCEPT !.raised = TRUE]
    ELSE IF DirEmpty(st.files, st.dirs, d) THEN [st EXCEPT !.dirs = @ \ {d}]
    ELSE st

\* the branch "if module and func": unlink the six targets that exist, then prune
CleanPrecise(fsv, module, func) ==
    LET targets == Range(ArtifactPaths(module, func))
        hit == targets \cap DOMAIN fsv.files
        st0 == [files |-> Restrict(fsv.files, DOMAIN fsv.files \ hit),
                dirs |-> fsv.dirs, raised |-> FALSE]
        st == PruneDir(PruneDir(PruneDir(st0, "diffs"), "originals"), "base")
    IN  [fs |-> [files |-> st.files, dirs |-> st.dirs],
         removed |-> Cardinality(hit), raised |-> st.raised]

\* base.glob(f"{safe_module}__*.py")
GlobModule(fsv, module) ==
    LET pre == SafeModule(module) \o <<"_", "_">>
    IN  {p \in DOMAIN fsv.files :
            /\ p.dir = "base"
            /\ Len(p.name) >= Len(pre) + 1
            /\ SubSeq(p.name, 1, Len(pre)) = pre
            /\ p.name[Len(p.name)] = ".py"}

\* p.stem
PathStem(p) == SubSeq(p.name, 1, Len(p.name) - 1)

\* name.split("__", 1)[1]
SplitFunc(name) ==
    LET S == {i \in 1..(Len(name) - 1) : name[i] = "_" /\ name[i + 1] = "_"}
        k == CHOOSE i \in S : \A j \in S : i <= j
    IN  SubSeq(name, k + 2, Len(name))

\* the loop of the branch "if module and not func" over the globbed files, in the
\* order the directory scan yields them; each round is the recursive call
\* clean_cache(base, module, func_name)
RECURSIVE CleanModuleLoop(_, _, _)
CleanModuleLoop(res, module, order) ==
    IF order = <<>> \/ res.raised THEN res
    ELSE LET func_name == SplitFunc(PathStem(Head(order)))
             one == IF "base" \notin res.fs.dirs
                    THEN [fs |-> res.fs, removed |-> 0, raised |-> FALSE]
                    ELSE CleanPrecise(res.fs, module, func_name)
         IN  CleanModuleLoop([fs |-> one.fs, removed |-> res.removed + one.removed,
                              raised |-> one.raised], module, Tail(order))

\* a count of the files directly under base only
CleanAllShallow(fsv) ==
    [fs |-> EmptyFs, removed |-> Cardinality({p \in DOMAIN fsv.files : p.dir = "base"}),
     raised |-> FALSE]

\* the last branch: count the files under base, then shutil.rmtree(base)
CleanAll(fsv) ==
    [fs |-> EmptyFs, removed |-> Cardinality(DOMAIN fsv.files), raised |-> FALSE]

\* clean_cache(base, module, func): the file system afterwards, the count returned,
\* and whether the call raised instead of returning.  None and "" are both <<>>.
clean_cache(fsv, module, func, order) ==
    IF "base" \notin fsv.dirs THEN [fs |-> fsv, removed |-> 0, raised |-> FALSE]
    ELSE IF module # <<>> /\ func # <<>> THEN CleanPrecise(fsv, module, func)
    ELSE IF module # <<>>
         THEN CleanModuleLoop([fs |-> fsv, removed |-> 0, raised |-> FALSE], module, order)
    ELSE CleanAll(fsv)

\* the orders in which the directory scan may yield a set of paths
Orders(S) ==
    {o \in [1..Cardinality(S) -> S] : \A i, j \in DOMAIN o : i # j => o[i] # o[j]}

-----------------------------------------------------------------------------
(* The wrapped functions and the texts the model draws from *)

F == << <<"a", ".", "b">>, <<"f">> >>
G == << <<"c">>, <<"g">> >>
\* an identity whose module differs from F's only in "." against "_"
F2 == << <<"a", "_", "b">>, <<"f">> >>

Funcs == {F, G}
CacheIds == {F, F2, G}

\* f"def {func.__name__}({params_txt}):\n"
DefLine(func) == Line(0, <<"def ">> \o func \o <<"(x):">>, "LF")

\* a function definition whose body is one statement, as _wrap_as_function builds it
\* (no terminator after the last line)
OneLiner(func, stmt) == << DefLine(func), Line(4, stmt, "NONE") >>

\* the same text with Windows line terminators
OneLinerCRLF(func, stmt) ==
    << [DefLine(func) EXCEPT !.nl = "CRLF"], Line(4, stmt, "CRLF") >>

\* inspect.getsource(func) of the examples: the decorator line, the def line, the body
Decorated(func, stmt) ==
    << Line(0, <<"@", "evolving(cfg)">>, "LF"), DefLine(func), Line(4, stmt, "LF") >>

\* the source files of the wrapped functions, as in examples/example_usage.py: f is
\* not implemented yet, g divides by its argument
OrigSrc(id) ==
    IF id = G THEN Decorated(id[2], <<"return ", "1 / x">>)
    ELSE Decorated(id[2], <<"raise ", "NotImplementedError">>)

\* the code of a function before anything was adopted or installed
OrigCode(id) == Compile(OrigSrc(id))

\* candidate sources handed to write_cache for a function named func: two for f,
\* with different bodies and different line terminators, one for the bystander g
CandTexts(func) ==
    IF func = F[2]
    THEN { OneLiner(func, <<"return ", "1">>), OneLinerCRLF(func, <<"return ", "2">>) }
    ELSE { OneLiner(func, <<"return ", "1">>) }

\* original snapshots handed to write_cache: for f none, the decorated original, and
\* a snapshot that equals a candidate; for g the decorated original
OrigTexts(func) ==
    IF func = F[2]
    THEN { NoSrc, Decorated(func, <<"raise ", "NotImplementedError">>),
           OneLiner(func, <<"return ", "1">>) }
    ELSE { Decorated(func, <<"raise ", "NotImplementedError">>) }

Times == 0..MaxTime

-----------------------------------------------------------------------------
(* evolving.py: from the oracle's text to a function definition *)

\* "\n".join(lines): every line but the last is terminated by "\n"
JoinLines(ls) ==
    [i \in DOMAIN ls |-> [ls[i] EXCEPT !.nl = IF i = Len(ls) THEN "NONE" ELSE "LF"]]

\* drop the blank lines at both ends
RECURSIVE TrimBlankEdges(_)
TrimBlankEdges(ls) ==
    IF ls = <<>> THEN <<>>
    ELSE IF IsBlank(Head(ls)) THEN TrimBlankEdges(Tail(ls))
    ELSE IF IsBlank(ls[Len(ls)]) THEN TrimBlankEdges(SubSeq(ls, 1, Len(ls) - 1))
    ELSE ls

Min(S) == CHOOSE m \in S : \A n \in S : m <= n

\* textwrap.dedent: the common indentation of the non-blank lines is removed, and a
\* line of blanks becomes the empty line
Dedent(ls) ==
    LET inds == {ls[i].ind : i \in {j \in DOMAIN ls : ~IsBlank(ls[j])}}
        margin == IF inds = {} THEN 0 ELSE Min(inds)
    IN  [i \in DOMAIN ls |->
            [ls[i] EXCEPT !.ind = IF IsBlank(ls[i]) THEN 0 ELSE @ - margin]]

\* b.startswith(fence) and b.endswith(fence), the fence being three backquotes,
\* written "FENCE" here
IsFenced(ls) ==
    /\ Len(ls) >= 2
    /\ StartsWith(ls[1], "FENCE")
    /\ ls[Len(ls)].s = <<"FENCE">>

\* _normalize_body: strip (which also removes the indentation of the first line),
\* remove a code fence with its language tag, normalize newlines, dedent, trim
NormalizeBody(body) ==
    LET b0 == TrimBlankEdges(body)
        b1 == IF b0 = <<>> THEN <<>> ELSE <<[b0[1] EXCEPT !.ind = 0]>> \o Tail(b0)
        b2 == IF IsFenced(b1) THEN SubSeq(b1, 2, Len(b1) - 1) ELSE b1
    IN  JoinLines(TrimBlankEdges(Dedent(NormalizeNewlines(b2))))

\* the module roots the body imports, by the two regular expressions
\* ^\s*import\s+(name) and ^\s*from\s+(name)\s+import\s+
ExistingImports(body) ==
    {body[i].s[2] : i \in {j \in DOMAIN body :
        /\ Len(body[j].s) >= 2
        /\ \/ StartsWith(body[j], "import ")
           \/ StartsWith(body[j], "from ") /\ \E k \in DOMAIN body[j].s : body[j].s[k] = " import "}}

\* (root + ".") in body
RefersTo(body, root) ==
    \E i \in DOMAIN body : \E k \in 1..(Len(body[i].s) - 1) :
        body[i].s[k] = root /\ body[i].s[k + 1] = "."

\* the list to_add, over the allowlist in its order
RECURSIVE ToAdd(_, _, _)
ToAdd(body, allow, existing) ==
    IF allow = <<>> THEN <<>>
    ELSE LET root == Head(allow)[1]
             rest == ToAdd(body, Tail(allow), existing)
         IN  IF root \notin existing /\ RefersTo(body, root)
             THEN <<Line(0, <<"import ", root>>, "LF")>> \o rest
             ELSE rest

\* _ensure_imports(body, allow)
EnsureImports(body, allow) ==
    LET to_add == ToAdd(body, allow, ExistingImports(body))
    IN  IF to_add # <<>> THEN to_add \o body ELSE body

\* _indent(s): s.splitlines(), four more blanks before every non-blank line, "\n".join
Indent(ls) ==
    JoinLines([i \in DOMAIN ls |->
        [ls[i] EXCEPT !.ind = IF IsBlank(ls[i]) THEN @ ELSE @ + 4]])

\* _wrap_as_function(func, body): the def line with the original parameters, then
\* the indented body
WrapAsFunction(func, body) == <<DefLine(func)>> \o Indent(body)

\* the line ends with ":" (a block opener, the def line included)
OpensBlock(ln) == Len(ln.s) > 0 /\ ln.s[Len(ln.s)] \in {":", "(x):"}

\* s.count("(") + s.count("[") + s.count("{") - s.count(")") - s.count("]") - s.count("}")
RECURSIVE ParenDelta(_)
ParenDelta(s) ==
    IF s = <<>> THEN 0
    ELSE (IF Head(s) = "(" THEN 1 ELSE IF Head(s) = ")" THEN -1 ELSE 0) + ParenDelta(Tail(s))

\* ast.parse accepts the lines from position i on, given the stack of enclosing
\* indentations and whether the line before opened a block: an opener must be
\* followed by a deeper line, any other line must sit at an enclosing indentation,
\* and a statement with an unclosed bracket is a syntax error
RECURSIVE ParseFrom(_, _, _, _)
ParseFrom(ls, i, stack, opened) ==
    IF i > Len(ls) THEN ~opened
    ELSE IF IsBlank(ls[i]) THEN ParseFrom(ls, i + 1, stack, opened)
    ELSE IF ParenDelta(ls[i].s) # 0 THEN FALSE
    ELSE IF opened
         THEN /\ ls[i].ind > Head(stack)
              /\ ParseFrom(ls, i + 1, <<ls[i].ind>> \o stack, OpensBlock(ls[i]))
    ELSE LET keep == {k \in DOMAIN stack : stack[k] = ls[i].ind}
         IN  /\ keep # {}
             /\ ParseFrom(ls, i + 1, SubSeq(stack, Min(keep), Len(stack)), OpensBlock(ls[i]))

\* ast.parse(fn_src) does not raise
Parses(fn_src) == ParseFrom(fn_src, 1, <<0>>, FALSE)

\* first loop of _repair_indentation: a line that is indented although the line
\* before it opened no block and no bracket is open is moved to the margin
RECURSIVE Flatten(_, _, _)
Flatten(ls, prevOpens, depth) ==
    IF ls = <<>> THEN <<>>
    ELSE LET ln == Head(ls)
         IN  IF IsBlank(ln) THEN <<ln>> \o Flatten(Tail(ls), prevOpens, depth)
             ELSE LET allow_indent == depth > 0 \/ prevOpens
                      out == IF ln.ind > 0 /\ ~allow_indent THEN [ln EXCEPT !.ind = 0] ELSE ln
                  IN  <<out>> \o Flatten(Tail(ls), OpensBlock(ln), depth + ParenDelta(ln.s))

\* index of the next non-blank line after i, 0 if there is none
NextNonBlank(ls, i) ==
    LET S == {j \in (i + 1)..Len(ls) : ~IsBlank(ls[j])}
    IN  IF S = {} THEN 0 ELSE Min(S)

\* second loop of _repair_indentation, from line i on: the first non-blank line after
\* a block opener gets four blanks if it has none
RECURSIVE ForceIndent(_, _)
ForceIndent(out, i) ==
    IF i > Len(out) THEN out
    ELSE LET j == NextNonBlank(out, i)
         IN  IF OpensBlock(out[i]) /\ j # 0 /\ out[j].ind = 0
             THEN ForceIndent([out EXCEPT ![j].ind = 4], i + 1)
             ELSE ForceIndent(out, i + 1)

\* _repair_indentation(body)
RepairIndentation(body) ==
    LET lines == TrimBlankEdges(NormalizeNewlines(body))
        lead == lines[1].ind
        shifted == [i \in DOMAIN lines |->
                       [lines[i] EXCEPT !.ind = IF lead > 0 /\ @ >= lead THEN @ - lead ELSE @]]
    IN  IF lines = <<>> THEN <<>>
        ELSE JoinLines(ForceIndent(Flatten(shifted, FALSE, 0), 1))

\* the module roots _validate_imports collects from one statement: the root of an
\* "import a.b", and for "from a.b import x" the root a and the name x
ImportedRoots(ln) ==
    IF StartsWith(ln, "import ") /\ Len(ln.s) >= 2
    THEN {ln.s[2]} \cup {ln.s[k + 1] : k \in {j \in 1..(Len(ln.s) - 1) : ln.s[j] = ", "}}
    ELSE IF StartsWith(ln, "from ") /\ Len(ln.s) >= 2
         THEN {ln.s[2]} \cup {ln.s[k + 1] : k \in {j \in 1..(Len(ln.s) - 1) : ln.s[j] = " import "}}
    ELSE {}

\* an import check that accepts everything
NoImportCheck(fn_src, allow) == FALSE

\* _validate_imports(fn_src, allow) raises RuntimeError("Disallowed import: ...")
DisallowedImport(fn_src, allow) ==
    \E i \in DOMAIN fn_src : \E m \in ImportedRoots(fn_src[i]) : <<m>> \notin Range(allow)

-----------------------------------------------------------------------------
(* Running a function: in the caller's process, and sandbox.py *)

Val(v) == [kind |-> "val", v |-> v, exc |-> ""]
Exc(name) == [kind |-> "exc", v |-> 0, exc |-> name]

\* the value of the expression of a return statement, or the exception it raises
Eval(e, x, imported) ==
    IF e = <<"1">> THEN Val(1)
    ELSE IF e = <<"2">> THEN Val(2)
    ELSE IF e = <<"1 / x">> THEN (IF x = 0 THEN Exc("ZeroDivisionError") ELSE Val(1))
    ELSE IF e = <<"json", ".", "dumps(x)">>
         THEN (IF "json" \in imported THEN Val(5 + x) ELSE Exc("NameError"))
    ELSE Exc("NameError")

\* the statements of the function body from line i on, called with argument x.  In the
\* sandbox (sandboxed) __import__ is guarded_import and the only names are the safe
\* builtins, so that raise <ExceptionClass> is a NameError there.
RECURSIVE ExecFrom(_, _, _, _, _, _)
ExecFrom(ls, i, x, imported, sandboxed, allow) ==
    IF i > Len(ls) THEN Val(0)
    ELSE LET s == ls[i].s
         IN  IF StartsWith(ls[i], "import ") \/ StartsWith(ls[i], "from ")
             THEN (IF sandboxed /\ <<s[2]>> \notin Range(allow)
                   THEN Exc("SandboxError")
                   ELSE ExecFrom(ls, i + 1, x, imported \cup {s[2]}, sandboxed, allow))
             ELSE IF StartsWith(ls[i], "return ") THEN Eval(Tail(s), x, imported)
             ELSE IF StartsWith(ls[i], "raise ")
                  THEN (IF sandboxed THEN Exc("NameError") ELSE Exc(s[2]))
             ELSE ExecFrom(ls, i + 1, x, imported, sandboxed, allow)

\* func(*args) in the caller's process, func.__code__ being code
RunLive(code, x) == ExecFrom(code, DefIdx(code) + 1, x, {}, FALSE, <<>>)

\* _runner(fn_src, fn_name, args, kwargs, allow_imports) in the child process
Runner(fn_src, func, x, allow) ==
    IF ~DefinesFn(fn_src, func) THEN Exc("SandboxError")
    ELSE ExecFrom(fn_src, DefIdx(fn_src) + 1, x, {}, TRUE, allow)

\* an exception object: its class, where it was raised, and the generation round
\* (number of oracle calls of the wrapped call so far) in which it was raised
Err(type, origin, round) == [type |-> type, origin |-> origin, round |-> round]

NoErr == Err("", "", 0)

\* what exec_in_sandbox can do: return the child's value, raise SandboxError with
\* the repr of the child's exception, or raise SandboxError("Timeout") or
\* SandboxError("Sandbox process exited without result"), which depend on the host
\* and not only on the candidate
exec_in_sandbox(fn_src, func, x, allow) ==
    LET r == Runner(fn_src, func, x, allow)
    IN  { [ok |-> r.kind = "val", v |-> r.v,
           msg |-> IF r.kind = "val" THEN "" ELSE r.exc] }
        \cup { [ok |-> FALSE, v |-> 0, msg |-> "Timeout"],
               [ok |-> FALSE, v |-> 0, msg |-> "Sandbox process exited without result"] }

\* a parent that reports the timeout without terminating the child
ChildrenAfterNoTerminate(live, o) == IF o.msg = "Timeout" THEN live ELSE live - 1

\* the children alive when exec_in_sandbox returns or raises: after p.join(timeout)
\* the child has ended, or it is alive and p.terminate(), p.join(1.0) end it (it has
\* the default SIGTERM disposition)
ChildrenAfter(live, o) == live - 1

-----------------------------------------------------------------------------
(* telemetry.py *)

\* a record_failure that counts a failure twice
record_failure_twice(fl, key) == [fl EXCEPT ![key] = @ + 2]

\* _failures after record_failure(module, func); the call returns the new count
record_failure(fl, key) == [fl EXCEPT ![key] = @ + 1]

\* a reset_failures that leaves the count
reset_failures_noop(fl, key) == fl

\* _failures after reset_failures(module, func)
reset_failures(fl, key) == [fl EXCEPT ![key] = 0]

\* get_failures(module, func)
get_failures(fl, key) == fl[key]

-----------------------------------------------------------------------------
(* Spec: the wrapped functions F and G of one process, called from one thread. *)
(* The process can end and a new one start over the same cache root.           *)

\* EvolverxConfig.allow_imports: two values of it
Allow == << <<"json">>, <<"re">> >>

AllowRe == << <<"re">> >>

\* the configurations a function may be decorated with: any budget, either
\* policy and either allowlist for f; g has a budget of one, resynthesizes on any
\* error and has the larger allowlist
Configs(id) ==
    IF id = G
    THEN { [max_attempts |-> 1, auto_resynthesize_on_any_error |-> TRUE,
            allow_imports |-> Allow] }
    ELSE [max_attempts : 1..MaxBudget, auto_resynthesize_on_any_error : BOOLEAN,
          allow_imports : {Allow, AllowRe}]

\* the configurations of all wrapped functions, as a program text may give them
ProgramConfigs ==
    { c \in [Funcs -> UNION { Configs(i) : i \in Funcs }] :
          \A i \in Funcs : c[i] \in Configs(i) }

\* those with the larger allowlist for every function
DefaultAllowConfigs == { c \in ProgramConfigs : \A i \in Funcs : c[i].allow_imports = Allow }

\* call arguments
Args == {0, 1}

\* what the oracle may answer (llm.generate_function_body: the text ends with
\* "\n"): for f a body that works, one that fails on 0, one that needs an import
\* inserted, one with a disallowed import, one that parses after the repair, one
\* that never parses, one that always raises; for g the first and the last
OracleBodies(id) ==
    IF id = G
    THEN { << Line(0, <<"return ", "1">>, "LF") >>,
           << Line(0, <<"raise ", "NotImplementedError">>, "LF") >> }
    ELSE { << Line(0, <<"return ", "1">>, "LF") >>,
           << Line(0, <<"return ", "1 / x">>, "LF") >>,
           << Line(0, <<"return ", "json", ".", "dumps(x)">>, "LF") >>,
           << Line(0, <<"import ", "os">>, "LF"), Line(0, <<"return ", "1">>, "LF") >>,
           << Line(0, <<"y = 2">>, "LF"), Line(4, <<"return ", "2">>, "LF") >>,
           << Line(0, <<"return ", "(">>, "LF") >>,
           << Line(0, <<"raise ", "NotImplementedError">>, "LF") >> }

\* the fallback of _get_source
StubSrc(func) ==
    << Line(0, <<"def ">> \o func \o <<"(...):">>, "LF"),
       Line(4, <<"raise ", "NotImplementedError">>, "LF") >>

\* _get_source(func): inspect.getsource reads the file func.__code__ was compiled
\* from: the module's source file, the cache file after load_from_cache (compiled
\* with the file's path), and nothing after an installation (compiled as
\* "<evolverx>"), where the stub is returned
GetSource(id, im, fsv) ==
    IF im.file = "source" THEN OrigSrc(id)
    ELSE IF im.file = "cache" /\ Exists(fsv, cache_path(id[1], id[2]))
         THEN [l \in DOMAIN fsv.files[cache_path(id[1], id[2])] |->
                  [ReadText(fsv.files[cache_path(id[1], id[2])])[l] EXCEPT !.nl = "LF"]]
    ELSE StubSrc(id[2])

\* the function object as decorated: its code and the file the code came from
OrigImpl(id) == [code |-> OrigCode(id), file |-> "source"]

\* an installation that leaves func.__code__ as it is
InstallNothing(im, id, fn_src) == im

\* func.__code__ after the installation of an accepted candidate (exec of the
\* compiled fn_src, then func.__code__ = candidate.__code__)
InstallCandidate(im, id, fn_src) ==
    [im EXCEPT ![id] = [code |-> Compile(fn_src), file |-> "<evolverx>"]]

\* a budget check that is off by one
BudgetExceededEarly(attempts, max_attempts) == attempts >= max_attempts

\* a budget check that is off by one the other way
BudgetExceededLate(attempts, max_attempts) == attempts > max_attempts + 1

\* "if attempts > cfg.max_attempts: raise err"
BudgetExceeded(attempts, max_attempts) == attempts > max_attempts

\* a budget check that gives up with an error of its own
BudgetRaiseGiveUp(err) == Err("RuntimeError", "budget", 0)

\* "raise err" of the budget check: the error _evolve was entered with
BudgetRaise(err) == err

\* "if get_failures(...) >= cfg.max_attempts: raise"
BudgetReached(count, max_attempts) == count >= max_attempts

\* a wrapper that resynthesizes on every exception
TriggersAlways(exc, config) == TRUE

\* the except clauses of the wrapper: NotImplementedError enters _evolve, any other
\* exception only under auto_resynthesize_on_any_error
Triggers(exc, config) ==
    exc = "NotImplementedError" \/ config.auto_resynthesize_on_any_error

\* the frame of a wrapped call: its arguments, the error _evolve was entered with,
\* the round's candidate, and the sandbox child processes of the call that are alive
NoCall == [id |-> F, x |-> 0, err |-> NoErr, attempts |-> 0, fn_src |-> NoSrc, result |-> 0,
           live |-> 0]

NoOutcome == [kind |-> "none", id |-> F, v |-> 0, err |-> NoErr, via |-> ""]

Returned(id, v, via) == [kind |-> "return", id |-> id, v |-> v, err |-> NoErr, via |-> via]

Raised(id, e, via) == [kind |-> "raise", id |-> id, v |-> 0, err |-> e, via |-> via]

\* observations of a call, reset when the next call starts
NoCallHist == [callId |-> F, oracle |-> 0, sandbox |-> 0, sbxFail |-> 0, start |-> 0,
               ran |-> NoSrc, ranExc |-> "", firstAdopted |-> FALSE, trigger |-> NoErr,
               sbxValue |-> 0, entries |-> 0]

\* observations of the process
InitHist == [c |-> NoCallHist, fresh |-> {}, committed |-> [i \in Funcs |-> NoSrc],
             recorded |-> {}, oracleSince |-> [i \in Funcs |-> 0], exhausted |-> {}]

\* observation: the identities with a call that raised to its caller while the
\* count was at or above max_attempts, after a call of id ended with the counts fl
ExhaustedAfter(h, id, fl, raised) ==
    IF raised /\ get_failures(fl, id) >= cfg[id].max_attempts
    THEN h.exhausted \cup {id} ELSE h.exhausted

Init ==
    /\ fs = EmptyFs
    /\ htmlSeq = 0
    /\ failures = [i \in Funcs |-> 0]
    /\ impl = [i \in Funcs |-> OrigImpl(i)]
    /\ wrapped = {}
    /\ cfg \in DefaultAllowConfigs
    /\ pc = "idle"
    /\ call = NoCall
    /\ outcome = NoOutcome
    /\ hist = InitHist

\* evolving.outer: the decorator runs, and adopts a cached candidate if there is one
Wrap(id) ==
    /\ pc = "idle"
    /\ id \notin wrapped
    /\ wrapped' = wrapped \cup {id}
    /\ impl' = [impl EXCEPT ![id] =
                  [code |-> load_from_cache(fs, id[1], id[2], impl[id].code),
                   file |-> IF load_from_cache_result(fs, id[1], id[2])
                            THEN "cache" ELSE impl[id].file]]
    /\ hist' = [hist EXCEPT !.fresh = IF load_from_cache_result(fs, id[1], id[2])
                                      THEN @ \cup {id} ELSE @]
    /\ UNCHANGED <<fs, htmlSeq, failures, cfg, pc, call, outcome>>

\* wrapper(*args): the current implementation runs; NotImplementedError, or any
\* exception under auto_resynthesize_on_any_error, enters _evolve
Call(id, x) ==
    /\ pc = "idle"
    /\ id \in wrapped
    /\ failures[id] < MaxFailures
    /\ htmlSeq < MaxSaves
    /\ LET r == RunLive(impl[id].code, x)
           e == Err(r.exc, "func", 0)
           h == [NoCallHist EXCEPT !.callId = id, !.start = failures[id],
                                   !.ran = impl[id].code, !.ranExc = r.exc,
                                   !.firstAdopted = id \in hist.fresh]
       IN  /\ hist' = [hist EXCEPT !.c = h, !.fresh = @ \ {id},
                                    !.exhausted = ExhaustedAfter(hist, id, failures,
                                        r.kind # "val" /\ ~Triggers(r.exc, cfg[id]))]
           /\ IF r.kind = "val"
              THEN /\ outcome' = Returned(id, r.v, "direct")
                   /\ UNCHANGED <<pc, call>>
              ELSE IF Triggers(r.exc, cfg[id])
              THEN /\ pc' = "evolve"
                   /\ call' = [NoCall EXCEPT !.id = id, !.x = x, !.err = e]
                   /\ outcome' = NoOutcome
              ELSE /\ outcome' = Raised(id, e, "func")
                   /\ UNCHANGED <<pc, call>>
    /\ UNCHANGED <<fs, htmlSeq, failures, impl, wrapped, cfg>>

\* entry of _evolve: record_failure, then the budget check
Enter ==
    /\ pc = "evolve"
    /\ LET id == call.id
           attempts == get_failures(record_failure(failures, id), id)
       IN  /\ failures' = record_failure(failures, id)
           /\ hist' = [hist EXCEPT !.c.trigger = call.err, !.c.entries = @ + 1,
                                    !.recorded = @ \cup {id},
                                    !.exhausted = ExhaustedAfter(hist, id,
                                        record_failure(failures, id),
                                        BudgetExceeded(attempts, cfg[id].max_attempts))]
           /\ IF BudgetExceeded(attempts, cfg[id].max_attempts)
              THEN /\ pc' = "idle"
                   /\ outcome' = Raised(id, BudgetRaise(call.err), "budget")
                   /\ call' = NoCall
              ELSE /\ pc' = "generate"
                   /\ call' = [call EXCEPT !.attempts = attempts]
                   /\ UNCHANGED outcome
    /\ UNCHANGED <<fs, htmlSeq, impl, wrapped, cfg>>

\* the oracle answers raw; the body is normalized, imports are inserted, the
\* definition is wrapped and parsed, repaired once if it does not parse, and parsed
\* again; a second syntax error re-enters _evolve with that error
Generate(raw) ==
    /\ pc = "generate"
    /\ \E normal \in { NormalizeBody(raw) } :
       \E body \in { EnsureImports(normal, cfg[call.id].allow_imports) } :
       \E fn_src \in { WrapAsFunction(call.id[2], body) } :
       \E repaired \in { WrapAsFunction(call.id[2], RepairIndentation(body)) } :
       LET id == call.id
       IN  /\ hist' = [hist EXCEPT !.c.oracle = @ + 1, !.oracleSince[id] = @ + 1]
           /\ IF Parses(fn_src)
              THEN /\ pc' = "validate"
                   /\ call' = [call EXCEPT !.fn_src = fn_src]
              ELSE IF Parses(repaired)
              THEN /\ pc' = "validate"
                   /\ call' = [call EXCEPT !.fn_src = repaired]
              ELSE /\ pc' = "evolve"
                   /\ call' = [call EXCEPT !.err = Err("SyntaxError", "parse", hist.c.oracle + 1),
                                           !.fn_src = NoSrc]
    /\ UNCHANGED <<fs, htmlSeq, failures, impl, wrapped, cfg, outcome>>

\* _validate_imports: a disallowed import raises RuntimeError out of _evolve and
\* out of the wrapper
Validate ==
    /\ pc = "validate"
    /\ IF DisallowedImport(call.fn_src, cfg[call.id].allow_imports)
       THEN /\ pc' = "idle"
            /\ outcome' = Raised(call.id, Err("RuntimeError", "policy", hist.c.oracle), "policy")
            /\ call' = NoCall
       ELSE /\ pc' = "start"
            /\ UNCHANGED <<call, outcome>>
    /\ hist' = [hist EXCEPT !.exhausted = ExhaustedAfter(hist, call.id, failures,
                    DisallowedImport(call.fn_src, cfg[call.id].allow_imports))]
    /\ UNCHANGED <<fs, htmlSeq, failures, impl, wrapped, cfg>>

\* exec_in_sandbox up to p.start(): a child process is spawned for the candidate
SandboxStart ==
    /\ pc = "start"
    /\ pc' = "sandbox"
    /\ call' = [call EXCEPT !.live = @ + 1]
    /\ UNCHANGED <<fs, htmlSeq, failures, impl, wrapped, cfg, outcome, hist>>

\* the rest of exec_in_sandbox and the except clause around it: the parent joins
\* the child and reports its outcome; a failure is re-raised when the count has
\* reached max_attempts, and re-enters _evolve otherwise
Sandbox(o) ==
    /\ pc = "sandbox"
    /\ LET id == call.id
           e == Err("SandboxError", "sandbox", hist.c.oracle)
       IN  IF o.ok
           THEN /\ pc' = "commit"
                /\ call' = [call EXCEPT !.result = o.v, !.live = ChildrenAfter(@, o)]
                /\ hist' = [hist EXCEPT !.c.sandbox = @ + 1, !.c.sbxValue = o.v]
                /\ UNCHANGED outcome
           ELSE /\ hist' = [hist EXCEPT !.c.sandbox = @ + 1, !.c.sbxFail = @ + 1,
                                         !.exhausted = ExhaustedAfter(hist, id, failures,
                                             BudgetReached(get_failures(failures, id),
                                                           cfg[id].max_attempts))]
                /\ IF BudgetReached(get_failures(failures, id), cfg[id].max_attempts)
                   THEN /\ pc' = "idle"
                        /\ outcome' = Raised(id, e, "sandbox")
                        /\ call' = NoCall
                   ELSE /\ pc' = "evolve"
                        /\ call' = [call EXCEPT !.err = e, !.fn_src = NoSrc,
                                                !.live = ChildrenAfter(@, o)]
                        /\ UNCHANGED outcome
    /\ UNCHANGED <<fs, htmlSeq, failures, impl, wrapped, cfg>>

\* the tail of _evolve: write_cache, installation, reset_failures, return result
Commit(ts) ==
    /\ pc = "commit"
    /\ LET id == call.id
           src == GetSource(id, impl[id], fs)
       IN  /\ fs' = write_cache(fs, htmlSeq, id[1], id[2], call.fn_src, src, ts)
           /\ htmlSeq' = HtmlSeqAfter(htmlSeq, src)
           /\ impl' = InstallCandidate(impl, id, call.fn_src)
           /\ failures' = reset_failures(failures, id)
           /\ outcome' = Returned(id, call.result, "commit")
           /\ hist' = [hist EXCEPT !.committed[id] = Compile(call.fn_src),
                                    !.oracleSince[id] = 0]
    /\ pc' = "idle"
    /\ call' = NoCall
    /\ UNCHANGED <<wrapped, cfg>>

\* the process ends and the program is started again: the counters, the function
\* objects and HtmlDiff's counter are new, the cache root is as it was left
Restart ==
    /\ pc = "idle"
    /\ wrapped # {}
    /\ failures' = [i \in Funcs |-> 0]
    /\ impl' = [i \in Funcs |-> OrigImpl(i)]
    /\ wrapped' = {}
    /\ htmlSeq' = 0
    /\ call' = NoCall
    /\ outcome' = NoOutcome
    /\ hist' = InitHist
    /\ UNCHANGED <<fs, cfg, pc>>

Next ==
    \/ \E id \in Funcs : Wrap(id)
    \/ \E id \in Funcs : \E x \in Args : Call(id, x)
    \/ Enter
    \/ \E raw \in OracleBodies(call.id) : Generate(raw)
    \/ Validate
    \/ SandboxStart
    \/ \E o \in exec_in_sandbox(call.fn_src, call.id[2], call.x, cfg[call.id].allow_imports) :
          Sandbox(o)
    \/ \E ts \in Times : Commit(ts)
    \/ Restart

Spec == Init /\ [][Next]_vars

\* the calls of f in one process
NextLive ==
    \/ Wrap(F)
    \/ \E x \in Args : Call(F, x)
    \/ Enter
    \/ \E raw \in OracleBodies(call.id) : Generate(raw)
    \/ Validate
    \/ SandboxStart
    \/ \E o \in exec_in_sandbox(call.fn_src, call.id[2], call.x, cfg[call.id].allow_imports) :
          Sandbox(o)
    \/ \E ts \in Times : Commit(ts)

\* a step of the call in progress
CallProgress == pc # "idle" /\ NextLive

\* _evolve runs on the thread of the caller and blocks on the oracle and on the
\* sandbox; where both answer, the thread takes its next step
SpecLive == Init /\ [][NextLive]_vars /\ WF_vars(CallProgress)

-----------------------------------------------------------------------------
(* SpecEdited: as Spec, and the allowlists in the program text can be edited *)
(* between two runs of the program                                           *)

InitEdited ==
    /\ fs = EmptyFs
    /\ htmlSeq = 0
    /\ failures = [i \in Funcs |-> 0]
    /\ impl = [i \in Funcs |-> OrigImpl(i)]
    /\ wrapped = {}
    /\ cfg \in ProgramConfigs
    /\ pc = "idle"
    /\ call = NoCall
    /\ outcome = NoOutcome
    /\ hist = InitHist

\* the process ends, allow_imports of the decorators is edited, and the program is
\* started again
RestartEdited ==
    /\ pc = "idle"
    /\ wrapped # {}
    /\ failures' = [i \in Funcs |-> 0]
    /\ impl' = [i \in Funcs |-> OrigImpl(i)]
    /\ wrapped' = {}
    /\ htmlSeq' = 0
    /\ call' = NoCall
    /\ outcome' = NoOutcome
    /\ hist' = InitHist
    /\ cfg' \in { c \in ProgramConfigs \ {cfg} :
                     \A i \in Funcs : c[i] = [cfg[i] EXCEPT !.allow_imports = c[i].allow_imports] }
    /\ UNCHANGED <<fs, pc>>

NextEdited == Next \/ RestartEdited

SpecEdited == InitEdited /\ [][NextEdited]_vars

-----------------------------------------------------------------------------
(* Claims about the wrapped call *)

\* this step starts a call of a wrapped function
CallStep == pc = "idle" /\ wrapped' = wrapped /\ hist'.c # NoCallHist

\* the last call has ended
CallEnded == pc = "idle" /\ outcome.kind # "none" /\ outcome.id = hist.c.callId

\* fn_src has an import statement whose module root is not an entry of allow
ImportsOutside(fn_src, allow) ==
    \E i \in DOMAIN fn_src :
        /\ Len(fn_src[i].s) >= 2
        /\ fn_src[i].s[1] \in {"import ", "from "}
        /\ \A k \in DOMAIN allow : allow[k] # << fn_src[i].s[2] >>

\* the candidate of the round has an import outside the allowlist of its function
ImportsOutsideAllow(fn_src) == ImportsOutside(fn_src, cfg[call.id].allow_imports)

\* C1: with max_attempts N >= 1 and a count of zero at the start of the call, a call
\* whose implementation raised the triggering condition and whose candidates all
\* failed in the sandbox has invoked the oracle exactly N times when it ends, and it
\* ends by raising; no call that starts at zero invokes the oracle more than N times.
C1_ExactlyNRounds ==
    LET N == cfg[hist.c.callId].max_attempts
    IN  hist.c.start = 0 =>
          /\ hist.c.oracle <= N
          /\ (CallEnded /\ hist.c.trigger # NoErr /\ hist.c.sbxFail = hist.c.oracle) =>
                (hist.c.oracle = N /\ outcome.kind = "raise")

\* C1 witness: a call with the largest budget ended after that many rounds, each of
\* which failed in the sandbox
C1_Witness ==
    /\ CallEnded
    /\ hist.c.start = 0
    /\ cfg[hist.c.callId].max_attempts = MaxBudget
    /\ hist.c.sbxFail = MaxBudget
    /\ hist.c.oracle = MaxBudget
    /\ outcome.kind = "raise"

\* C2: whenever exec_in_sandbox is called in a round, the candidate of that round
\* parses and has no import outside the allowlist: the import check has run, after
\* the parse and before the sandbox.
C2_ValidatedBeforeSandbox ==
    [][hist'.c.sandbox = hist.c.sandbox + 1 =>
          /\ pc = "sandbox"
          /\ Parses(call.fn_src)
          /\ ~ImportsOutsideAllow(call.fn_src)
      ]_vars

\* C2 witness: a round produced a candidate with a disallowed import, and the call
\* ended without any sandbox execution
C2_Witness ==
    /\ CallEnded
    /\ outcome.via = "policy"
    /\ hist.c.oracle = 1
    /\ hist.c.sandbox = 0

\* C3: when the import check finds a disallowed import, the call ends in that step
\* with a RuntimeError raised to the caller: no oracle invocation, no sandbox
\* execution, no cache write and no installation follows, and the count is left.
C3_PolicyViolationFatal ==
    [][(pc = "validate" /\ ImportsOutsideAllow(call.fn_src)) =>
          /\ pc' = "idle"
          /\ outcome'.kind = "raise"
          /\ outcome'.id = call.id
          /\ outcome'.err.type = "RuntimeError"
          /\ hist'.c.oracle = hist.c.oracle
          /\ hist'.c.sandbox = hist.c.sandbox
          /\ fs' = fs
          /\ impl' = impl
      ]_vars

\* C3 witness: the violation was found in a later round, reached through a sandbox
\* retry, with attempts left in the budget
C3_Witness ==
    /\ CallEnded
    /\ outcome.via = "policy"
    /\ hist.c.oracle >= 2
    /\ hist.c.sbxFail >= 1
    /\ failures[hist.c.callId] < cfg[hist.c.callId].max_attempts

\* C4 (as stated): when a sandbox execution fails with the count at max_attempts,
\* the error raised to the caller is the triggering error that started that round.
C4_RaisesTriggeringError ==
    (CallEnded /\ outcome.via = "sandbox") => outcome.err = hist.c.trigger

\* C5: the count of an identity is zero as long as no failure has been recorded for
\* it, and zero after every commit, whatever failures preceded it.
C5_ZeroAtStartAndAfterCommit ==
    /\ \A i \in Funcs : i \notin hist.recorded => get_failures(failures, i) = 0
    /\ (CallEnded /\ outcome.via = "commit") => get_failures(failures, outcome.id) = 0

\* C5 witness: a commit after failures of an earlier call and of this one
C5_Witness ==
    /\ CallEnded
    /\ outcome.via = "commit"
    /\ hist.c.start >= 1
    /\ hist.c.oracle >= 2
    /\ failures[outcome.id] = 0

\* C6: in every step of a process the count of an identity stays, grows by one, or
\* becomes zero, and it becomes zero only in the commit of a candidate that parses,
\* passed the import check and the sandbox, and is persisted and installed by that
\* step.
C6_CountSteps ==
    [][wrapped' # {} =>
        \A i \in Funcs :
          \/ failures'[i] = failures[i]
          \/ failures'[i] = failures[i] + 1
          \/ /\ failures'[i] = 0
             /\ pc = "commit"
             /\ call.id = i
             /\ Parses(call.fn_src)
             /\ ~ImportsOutsideAllow(call.fn_src)
             /\ hist.c.sandbox = hist.c.sbxFail + 1
             /\ fs'.files[cache_path(i[1], i[2])] = WriteText(call.fn_src)
             /\ impl'[i].code = Compile(call.fn_src)
      ]_vars

\* C6 witness: a call returned normally while the count of its identity was not
\* zero
C6_Witness ==
    /\ CallEnded
    /\ outcome.via = "direct"
    /\ failures[outcome.id] > 0

\* C7: a call of a function for which a candidate was committed in this process
\* executes the candidate of the latest commit, and the committing call returns the
\* value of the sandbox execution.
C7_InstalledCandidateRuns ==
    [][/\ (CallStep /\ hist.committed[hist'.c.callId] # NoSrc) =>
              hist'.c.ran = hist.committed[hist'.c.callId]
       /\ pc = "commit" =>
              /\ outcome' = Returned(call.id, hist.c.sbxValue, "commit")
              /\ hist'.committed[call.id] = Compile(call.fn_src)
      ]_vars

\* C7 witness: after a commit, a later call ran the
\* committed candidate and returned
C7_Witness ==
    /\ CallEnded
    /\ outcome.via = "direct"
    /\ hist.committed[outcome.id] # NoSrc
    /\ hist.c.ran = hist.committed[outcome.id]
    /\ hist.c.ran # OrigCode(outcome.id)

\* C19: when the implementation raises an error other than NotImplementedError and
\* auto_resynthesize_on_any_error is false, the call ends with that error raised to
\* the caller, and count, cache and implementation are unchanged and the oracle is
\* not invoked; when it raises NotImplementedError, or any error with the flag set,
\* the call enters _evolve, whose first step increments the count.
C19_PropagateOrTrigger ==
    [][/\ (CallStep /\ hist'.c.ranExc # "") =>
            IF hist'.c.ranExc # "NotImplementedError"
               /\ ~cfg[hist'.c.callId].auto_resynthesize_on_any_error
            THEN /\ pc' = "idle"
                 /\ outcome' = Raised(hist'.c.callId, Err(hist'.c.ranExc, "func", 0), "func")
                 /\ failures' = failures
                 /\ fs' = fs
                 /\ impl' = impl
                 /\ hist'.c.oracle = 0
            ELSE /\ pc' = "evolve"
                 /\ call'.id = hist'.c.callId
                 /\ call'.err = Err(hist'.c.ranExc, "func", 0)
       /\ (pc = "evolve" /\ call.err.origin = "func") =>
            failures'[call.id] = failures[call.id] + 1
      ]_vars

\* C19 witness: a function without the flag raised ZeroDivisionError, which ended
\* the call
C19_Witness ==
    /\ CallEnded
    /\ outcome.via = "func"
    /\ hist.c.ranExc = "ZeroDivisionError"
    /\ ~cfg[hist.c.callId].auto_resynthesize_on_any_error
    /\ hist.c.oracle = 0

\* this step is the decoration of id, and it adopted the cached candidate
AdoptStep(id) ==
    /\ pc = "idle"
    /\ id \notin wrapped
    /\ id \in wrapped'
    /\ impl'[id].file = "cache"

\* C20 (as stated): a candidate that is run in the sandbox, installed by a commit,
\* or adopted from the cache when its function is wrapped, parses and has no import
\* outside the allowlist of the function's configuration at that time.
C20_OnlyValidatedCandidates ==
    [][/\ hist'.c.sandbox = hist.c.sandbox + 1 =>
            (Parses(call.fn_src) /\ ~ImportsOutside(call.fn_src, cfg[call.id].allow_imports))
       /\ pc = "commit" =>
            (Parses(call.fn_src) /\ ~ImportsOutside(call.fn_src, cfg[call.id].allow_imports))
       /\ \A id \in Funcs : AdoptStep(id) =>
            (Parses(impl'[id].code) /\ ~ImportsOutside(impl'[id].code, cfg[id].allow_imports))
      ]_vars

\* the first call of a function that adopted a cached candidate when it was wrapped
\* executes that candidate
FirstCallRunsCached ==
    [][(CallStep /\ hist'.c.callId \in hist.fresh) =>
          /\ Exists(fs, cache_path(hist'.c.callId[1], hist'.c.callId[2]))
          /\ hist'.c.ran =
                Compile(ReadText(fs.files[cache_path(hist'.c.callId[1], hist'.c.callId[2])]))
      ]_vars

\* C8 (as stated): the first call after wrapping with a cached candidate executes
\* the cached candidate, and the oracle is not invoked during that call.
C8_FirstCallNoOracle ==
    /\ FirstCallRunsCached
    /\ [](hist.c.firstAdopted => hist.c.oracle = 0)

\* C8 (amended): the first call after wrapping with a cached candidate executes the
\* cached candidate, and the oracle is not invoked during that call unless the
\* cached candidate raised a triggering failure on that call.
C8_FirstCallRunsCachedCandidate ==
    /\ FirstCallRunsCached
    /\ [](hist.c.firstAdopted =>
            /\ hist.c.ran # OrigCode(hist.c.callId)
            /\ hist.c.oracle > 0 =>
                 \/ hist.c.ranExc = "NotImplementedError"
                 \/ hist.c.ranExc # "" /\ cfg[hist.c.callId].auto_resynthesize_on_any_error)

\* C8 witness: the first call after an adoption ran the cached candidate and
\* returned its value, without the oracle
C8_Witness ==
    /\ CallEnded
    /\ hist.c.firstAdopted
    /\ outcome.via = "direct"
    /\ hist.c.oracle = 0
    /\ hist.c.ran # OrigCode(hist.c.callId)

\* this step belongs to identity b: its decoration, the start of a call of it, or
\* a step of _evolve for it
StepOf(b) ==
    \/ b \notin wrapped /\ wrapped' = wrapped \cup {b}
    \/ CallStep /\ hist'.c.callId = b
    \/ pc # "idle" /\ call.id = b

\* the two functions of Spec have different file stems: there, a step of one
\* identity leaves the other's count, implementation, artifacts and committed
\* candidate as they are
C21_OtherIdentityUntouched ==
    [][\A a \in Funcs : \A b \in Funcs \ {a} :
          StepOf(b) =>
              /\ failures'[a] = failures[a]
              /\ impl'[a] = impl[a]
              /\ hist'.committed[a] = hist.committed[a]
              /\ \A p \in Range(ArtifactPaths(a[1], a[2])) :
                    /\ Exists(fs', p) = Exists(fs, p)
                    /\ Exists(fs, p) => fs'.files[p] = fs.files[p]
      ]_vars

\* this step issues an oracle request
OracleStep == hist'.c.oracle = hist.c.oracle + 1

\* C22: within a call the rounds are sequential: when the oracle request of round
\* N+1 is issued, no sandbox child of the call is alive and round N has concluded,
\* with a syntax failure or with a failed sandbox execution whose error the request
\* carries; at most one sandbox child exists at any time.
C22_RoundsSequential ==
    [][/\ call'.live <= 1
       /\ OracleStep =>
             /\ pc = "generate"
             /\ call.live = 0
             /\ hist.c.oracle >= 1 =>
                   /\ call.err.round = hist.c.oracle
                   /\ \/ call.err.origin = "parse"
                      \/ call.err.origin = "sandbox" /\ hist.c.sbxFail >= 1
      ]_vars

\* C22 witness: the sandbox child of a second round is running, after the first
\* round's sandbox execution failed
C22_Witness ==
    /\ pc = "sandbox"
    /\ call.live = 1
    /\ hist.c.oracle = 2
    /\ hist.c.sbxFail = 1

\* this step is an entry of _evolve for identity i: the failure is recorded
EnterStep(i) == pc = "evolve" /\ call.id = i /\ failures'[i] = failures[i] + 1

\* the most recent triggering failure of the call, from what the call has done so
\* far: the exception of the function itself before any round, the syntax or
\* sandbox failure of the last round after it
IsLatestTrigger(e) ==
    IF hist.c.oracle = 0
    THEN e = Err(hist.c.ranExc, "func", 0)
    ELSE /\ e.round = hist.c.oracle
         /\ \/ e.origin = "parse" /\ e.type = "SyntaxError"
            \/ e.origin = "sandbox" /\ e.type = "SandboxError"

\* C24: when an entry of _evolve raises the count above max_attempts, the call ends
\* in that step without an oracle request or a sandbox execution, and the error
\* raised to the caller is the most recent triggering error itself.
C24_OverBudgetRaisesLatestTrigger ==
    [][\A i \in Funcs :
          (EnterStep(i) /\ failures'[i] > cfg[i].max_attempts) =>
              /\ pc' = "idle"
              /\ outcome'.kind = "raise"
              /\ outcome'.id = i
              /\ IsLatestTrigger(outcome'.err)
              /\ hist'.c.oracle = hist.c.oracle
              /\ hist'.c.sandbox = hist.c.sandbox
      ]_vars

\* C24 witness: a call ended over budget with the syntax failure of its last round,
\* after a round that failed in the sandbox
C24_Witness ==
    /\ CallEnded
    /\ outcome.via = "budget"
    /\ outcome.err.origin = "parse"
    /\ hist.c.oracle >= 2
    /\ hist.c.sbxFail >= 1
    /\ failures[outcome.id] > cfg[outcome.id].max_attempts

\* C25: in a round the definition is parsed as the oracle gave it; only if that
\* fails it is repaired, once, and parsed again. A candidate that parses either way
\* goes to the import check. If the repaired source fails too, the round ends
\* without import check and sandbox execution, its syntax failure is the error
\* _evolve is entered with again, that entry counts one more failure and then
\* starts a new round, or raises the syntax failure if the budget is exceeded.
C25_RepairOnceThenRetry ==
    [][/\ OracleStep =>
            \E raw \in OracleBodies(call.id) :
                LET body == EnsureImports(NormalizeBody(raw), cfg[call.id].allow_imports)
                    first == WrapAsFunction(call.id[2], body)
                    second == WrapAsFunction(call.id[2], RepairIndentation(body))
                IN  /\ failures' = failures
                    /\ hist'.c.sandbox = hist.c.sandbox
                    /\ IF Parses(first)
                       THEN pc' = "validate" /\ call'.fn_src = first
                       ELSE IF Parses(second)
                       THEN pc' = "validate" /\ call'.fn_src = second
                       ELSE /\ pc' = "evolve"
                            /\ call'.err = Err("SyntaxError", "parse", hist'.c.oracle)
       /\ (pc = "evolve" /\ call.err.origin = "parse") =>
             /\ failures'[call.id] = failures[call.id] + 1
             /\ hist'.c.sandbox = hist.c.sandbox
             /\ hist'.c.oracle = hist.c.oracle
             /\ IF failures'[call.id] > cfg[call.id].max_attempts
                THEN pc' = "idle" /\ outcome'.kind = "raise" /\ outcome'.err = call.err
                ELSE pc' = "generate" /\ call'.err = call.err
      ]_vars

\* C25 witness: the repaired source of the first round did not parse, no sandbox
\* execution took place, and a second round has started
C25_Witness ==
    /\ pc = "generate"
    /\ call.err = Err("SyntaxError", "parse", 1)
    /\ hist.c.oracle = 1
    /\ hist.c.sandbox = 0
    /\ failures[call.id] = hist.c.start + 2

\* C26: for every identity, the oracle requests since the last commit for it, or
\* since the start of the process if there was none, never exceed max_attempts,
\* over however many calls and whatever kinds of failure.
C26_OracleCallsBounded ==
    \A i \in Funcs : hist.oracleSince[i] <= cfg[i].max_attempts

\* C26 witness: the budget of an identity was used up by the rounds of more than
\* one call, with a sandbox failure among them
C26_Witness ==
    /\ pc # "idle"
    /\ hist.oracleSince[call.id] = cfg[call.id].max_attempts
    /\ hist.c.oracle >= 1
    /\ hist.c.oracle < hist.oracleSince[call.id]
    /\ hist.c.sbxFail >= 1

\* C27: once a call of an identity has raised to its caller with the count at or
\* above max_attempts, in every later step of the process the count of the identity
\* does not go down, and every later call of it that enters _evolve ends in that
\* entry, raising the error it was entered with, without an oracle request and
\* without a sandbox execution; only the restart of the process ends this.
C27_ExhaustedUntilRestart ==
    [][\A i \in hist.exhausted :
          \/ wrapped' = {} /\ hist'.exhausted = {}
          \/ /\ failures[i] >= cfg[i].max_attempts
             /\ failures'[i] >= failures[i]
             /\ i \in hist'.exhausted
             /\ (pc # "idle" /\ call.id = i) =>
                   /\ pc = "evolve"
                   /\ pc' = "idle"
                   /\ outcome' = Raised(i, call.err, "budget")
                   /\ call.err = Err(hist.c.ranExc, "func", 0)
                   /\ hist'.c.oracle = 0
                   /\ hist'.c.sandbox = 0
      ]_vars

\* C27 witness: a call ended in the sandbox branch with the count at
\* max_attempts, and a later call of the same identity, whose function raised
\* again, ended at the entry of _evolve
C27_Witness ==
    /\ CallEnded
    /\ outcome.via = "budget"
    /\ outcome.id \in hist.exhausted
    /\ hist.c.start = cfg[outcome.id].max_attempts
    /\ hist.c.oracle = 0
    /\ failures[outcome.id] = hist.c.start + 1

\* C28: every call that entered _evolve ends, with a value or with an error; in a
\* call the count grows with every entry, the call has at most max_attempts rounds
\* and enters _evolve at most max_attempts + 1 times.
C28_CallTerminates ==
    /\ [](pc # "idle" =>
            /\ hist.c.oracle <= cfg[call.id].max_attempts
            /\ hist.c.entries <= cfg[call.id].max_attempts + 1
            /\ hist.c.entries >= 1 => failures[call.id] = hist.c.start + hist.c.entries)
    /\ (pc # "idle") ~> (pc = "idle" /\ outcome.kind \in {"return", "raise"})

\* C28 witness: a call ended after max_attempts rounds and max_attempts + 1
\* entries, more than one of each
C28_Witness ==
    /\ CallEnded
    /\ hist.c.oracle = cfg[outcome.id].max_attempts
    /\ hist.c.entries = hist.c.oracle + 1
    /\ hist.c.oracle >= 2

-----------------------------------------------------------------------------
(* SpecCache: the cache operations on their own.  Save is write_cache, Clear is *)
(* clean_cache, Load is load_from_cache applied to the freshly decorated        *)
(* function (evolving.outer); any sequence of them, on identities that include  *)
(* two with the same file stem.                                                *)

NoOp == [kind |-> "none", id |-> F, src |-> NoSrc, orig |-> NoSrc, ts |-> 0, rep |-> "no",
         removed |-> 0, raised |-> FALSE, loaded |-> FALSE, code |-> NoSrc]

InitCache ==
    /\ fs = EmptyFs
    /\ htmlSeq = 0
    /\ failures = <<>>
    /\ impl = <<>>
    /\ wrapped = {}
    /\ cfg = <<>>
    /\ pc = "cache"
    /\ call = <<>>
    /\ outcome = <<>>
    /\ hist = [saved |-> [i \in CacheIds |-> NoSrc], last |-> NoOp]

\* whether a save with these arguments repeats the operation before it, and if so
\* whether at the same time (observation only)
RepeatOf(last, id, src, orig, ts) ==
    IF last.kind = "save" /\ last.id = id /\ last.src = src /\ last.orig = orig
    THEN (IF last.ts = ts THEN "same_time" ELSE "other_time")
    ELSE "no"

\* Save(identity, candidateSource, originalSourceSnapshot?) at time ts
Save(id, src, orig, ts) ==
    /\ orig # NoSrc => htmlSeq < MaxSaves
    /\ fs' = write_cache(fs, htmlSeq, id[1], id[2], src, orig, ts)
    /\ htmlSeq' = HtmlSeqAfter(htmlSeq, orig)
    /\ hist' = [saved |-> [hist.saved EXCEPT ![id] = src],
                last |-> [NoOp EXCEPT !.kind = "save", !.id = id, !.src = src,
                                      !.orig = orig, !.ts = ts,
                                      !.rep = RepeatOf(hist.last, id, src, orig, ts)]]
    /\ UNCHANGED <<failures, impl, wrapped, cfg, pc, call, outcome>>

\* the identities a Clear with these arguments is scoped to
ClearScope(module, func) ==
    IF module # <<>> /\ func # <<>> THEN {i \in CacheIds : i = <<module, func>>}
    ELSE IF module # <<>> THEN {i \in CacheIds : i[1] = module}
    ELSE CacheIds

\* Clear(identity?, namespaceOnly?)
Clear(module, func, order) ==
    LET res == clean_cache(fs, module, func, order)
    IN  /\ fs' = res.fs
        /\ hist' = [saved |-> [i \in CacheIds |->
                                  IF i \in ClearScope(module, func) THEN NoSrc
                                  ELSE hist.saved[i]],
                    last |-> [NoOp EXCEPT !.kind = "clear", !.id = <<module, func>>,
                                          !.removed = res.removed, !.raised = res.raised]]
        /\ UNCHANGED <<htmlSeq, failures, impl, wrapped, cfg, pc, call, outcome>>

\* Load(identity): load_from_cache on the function object of the identity, as
\* evolving.outer calls it on the function it is about to wrap
Load(id) ==
    /\ hist' = [hist EXCEPT !.last =
                    [NoOp EXCEPT !.kind = "load", !.id = id,
                                 !.loaded = load_from_cache_result(fs, id[1], id[2]),
                                 !.code = load_from_cache(fs, id[1], id[2], OrigCode(id))]]
    /\ UNCHANGED <<fs, htmlSeq, failures, impl, wrapped, cfg, pc, call, outcome>>

NextCache ==
    \/ \E id \in CacheIds : \E src \in CandTexts(id[2]) : \E orig \in OrigTexts(id[2]) :
          \E ts \in Times : Save(id, src, orig, ts)
    \/ \E id \in CacheIds : Clear(id[1], id[2], <<>>)
    \/ \E id \in CacheIds : \E order \in Orders(GlobModule(fs, id[1])) :
          Clear(id[1], <<>>, order)
    \/ Clear(<<>>, <<>>, <<>>)
    \/ \E id \in CacheIds : Load(id)

SpecCache == InitCache /\ [][NextCache]_vars

-----------------------------------------------------------------------------
(* Claims about the cache *)

\* C9 (as stated): Load for an identity returns exactly the candidate source of the
\* most recent Save for that identity since its last Clear, and nothing if there was
\* no such Save.
C9_LoadReturnsLastSave ==
    hist.last.kind = "load" =>
        LET id == hist.last.id
        IN  IF hist.saved[id] = NoSrc
            THEN ~hist.last.loaded /\ hist.last.code = OrigCode(id)
            ELSE hist.last.loaded /\ hist.last.code = Compile(hist.saved[id])

\* a diff, a markdown document, a metadata record and an HTML file without the
\* timestamp or the anchor numbering they embed
StripDate(diff_txt) == [i \in DOMAIN diff_txt |-> [diff_txt[i] EXCEPT !.date = 0]]
StripMd(md) == [md EXCEPT !.generated = 0, !.diff = StripDate(@)]
StripMeta(meta) == [meta EXCEPT !.generated_utc = 0]
StripHtml(html) == [html EXCEPT !.prefix = 0]

\* this step is a Save that repeats the Save before it: same identity, same
\* candidate source, same snapshot
RepeatedSaveStep ==
    /\ hist.last.kind = "save"
    /\ hist'.last.kind = "save"
    /\ hist'.last.rep # "no"

\* C10 (as stated): calling Save twice with the same identity, the same candidate
\* source and the same original snapshot yields identical content for every
\* artifact, also when the two saves happen at different times, and the diff
\* written by the second save is empty.
C10_SaveIdempotent ==
    [][RepeatedSaveStep =>
        LET id == hist'.last.id
        IN  /\ \A i \in 1..6 :
                Exists(fs', ArtifactPaths(id[1], id[2])[i]) =>
                    /\ Exists(fs, ArtifactPaths(id[1], id[2])[i])
                    /\ fs'.files[ArtifactPaths(id[1], id[2])[i]]
                          = fs.files[ArtifactPaths(id[1], id[2])[i]]
            /\ hist'.last.orig # NoSrc => fs'.files[diff_path(id[1], id[2])] = <<>>
      ]_vars

\* C10 (amended): a repeated Save leaves the candidate file and the snapshot
\* identical; the raw diff, the markdown document and the metadata equal those of
\* the first save except for the generation timestamp (and are identical when both
\* saves carry the same timestamp); the HTML diff equals the first except for the
\* numbering of its anchors; the second diff is empty only if the first was.
C10_SaveIdempotentUpToTime ==
    [][RepeatedSaveStep =>
        LET m == hist'.last.id[1]
            f == hist'.last.id[2]
        IN  /\ fs'.files[cache_path(m, f)] = fs.files[cache_path(m, f)]
            /\ hist'.last.orig # NoSrc =>
                /\ fs'.files[original_path(m, f)] = fs.files[original_path(m, f)]
                /\ StripDate(fs'.files[diff_path(m, f)]) = StripDate(fs.files[diff_path(m, f)])
                /\ StripMd(fs'.files[diff_md_path(m, f)]) = StripMd(fs.files[diff_md_path(m, f)])
                /\ StripMeta(fs'.files[meta_path(m, f)]) = StripMeta(fs.files[meta_path(m, f)])
                /\ StripHtml(fs'.files[diff_html_path(m, f)])
                      = StripHtml(fs.files[diff_html_path(m, f)])
                /\ hist'.last.rep = "same_time" =>
                    /\ fs'.files[diff_path(m, f)] = fs.files[diff_path(m, f)]
                    /\ fs'.files[diff_md_path(m, f)] = fs.files[diff_md_path(m, f)]
                    /\ fs'.files[meta_path(m, f)] = fs.files[meta_path(m, f)]
                /\ (fs'.files[diff_path(m, f)] = <<>>) <=> (fs.files[diff_path(m, f)] = <<>>)
                /\ (fs'.files[diff_path(m, f)] = <<>>) <=>
                      (NormalizeNewlines(hist'.last.orig) =
                          ExtractDecoratorBlock(hist'.last.orig)
                              \o NormalizeNewlines(hist'.last.src))
      ]_vars

\* C10 witness: a Save with a snapshot was repeated at another time, and the diff
\* it wrote is not empty
C10_Witness ==
    /\ hist.last.kind = "save"
    /\ hist.last.rep = "other_time"
    /\ hist.last.orig # NoSrc
    /\ fs.files[diff_path(hist.last.id[1], hist.last.id[2])] # <<>>
    /\ fs.files[meta_path(hist.last.id[1], hist.last.id[2])].generated_utc = hist.last.ts

\* this step is a clean_cache call with these arguments
ClearStep(module, func) ==
    /\ hist'.last.kind = "clear"
    /\ hist'.last.id = <<module, func>>

ArtifactsOf(S) == UNION { Range(ArtifactPaths(i[1], i[2])) : i \in S }

\* C13 (as stated): clean_cache for one (module, function), or for one module,
\* leaves every artifact of every identity outside its scope present and unmodified,
\* and returns the number of files it removed.
C13_ScopedCleanFrame ==
    [][\A id \in CacheIds : \A func \in {id[2], <<>>} :
          ClearStep(id[1], func) =>
              /\ \A p \in ArtifactsOf(CacheIds \ ClearScope(id[1], func)) :
                    Exists(fs, p) => (Exists(fs', p) /\ fs'.files[p] = fs.files[p])
              /\ ~hist'.last.raised
              /\ hist'.last.removed
                    = Cardinality(DOMAIN fs.files) - Cardinality(DOMAIN fs'.files)
      ]_vars

\* this step is a commit's Save for identity b
SaveStep(b) ==
    /\ hist'.last.kind = "save"
    /\ hist'.last.id = b

\* C21 (as stated, for the cache record): a commit for identity B leaves the cache
\* record of every other identity A as it would be had the call on B not happened:
\* A's artifacts are neither created, removed nor rewritten, and what a later
\* decoration of A adopts is the same.
C21_CallsIndependent ==
    [][\A a \in CacheIds : \A b \in CacheIds \ {a} :
          SaveStep(b) =>
              /\ \A p \in Range(ArtifactPaths(a[1], a[2])) :
                    /\ Exists(fs', p) = Exists(fs, p)
                    /\ Exists(fs, p) => fs'.files[p] = fs.files[p]
              /\ load_from_cache(fs', a[1], a[2], OrigCode(a))
                    = load_from_cache(fs, a[1], a[2], OrigCode(a))
      ]_vars

\* the same frame for identities whose file stems differ
C21_IndependentWithoutCollision ==
    [][\A a \in CacheIds : \A b \in CacheIds \ {a} :
          (SaveStep(b) /\ Stem(a[1], a[2]) # Stem(b[1], b[2])) =>
              /\ \A p \in Range(ArtifactPaths(a[1], a[2])) :
                    /\ Exists(fs', p) = Exists(fs, p)
                    /\ Exists(fs, p) => fs'.files[p] = fs.files[p]
              /\ load_from_cache(fs', a[1], a[2], OrigCode(a))
                    = load_from_cache(fs, a[1], a[2], OrigCode(a))
      ]_vars

-----------------------------------------------------------------------------
(* SpecPaths: the mapping from identities to artifact paths, applied to pairs *)
(* of identities whose names contain dots, underscores and double underscores *)

PathModules ==
    { <<"a", ".", "b">>, <<"a", "_", "b">>, <<"a">>, <<"a", "_", "_", "b">>, <<"c">> }

PathFuncs == { <<"f">>, <<"b", "_", "_", "f">>, <<"g">> }

PathIds == PathModules \X PathFuncs

InitPaths ==
    /\ fs = EmptyFs
    /\ htmlSeq = 0
    /\ failures = <<>>
    /\ impl = <<>>
    /\ wrapped = {}
    /\ cfg = <<>>
    /\ pc = "paths"
    /\ call = <<>>
    /\ outcome = <<>>
    /\ hist = <<>>

\* the six paths of two identities are computed
MapIdentities(i, j) ==
    /\ call' = <<i, j>>
    /\ outcome' = << ArtifactPaths(i[1], i[2]), ArtifactPaths(j[1], j[2]) >>
    /\ UNCHANGED <<fs, htmlSeq, failures, impl, wrapped, cfg, pc, hist>>

NextPaths == \E i \in PathIds : \E j \in PathIds : MapIdentities(i, j)

SpecPaths == InitPaths /\ [][NextPaths]_vars

\* C11 (as stated): the mapping is deterministic, and two different identities have
\* no artifact path in common: not the candidate file, the snapshot, a diff or the
\* metadata file.
C11_PathsInjective ==
    call # <<>> =>
        /\ outcome = << ArtifactPaths(call[1][1], call[1][2]),
                        ArtifactPaths(call[2][1], call[2][2]) >>
        /\ call[1] # call[2] => \A k \in 1..6 : outcome[1][k] # outcome[2][k]

-----------------------------------------------------------------------------
(* SpecSandbox: one call of exec_in_sandbox.  The parent starts the child,   *)
(* joins it with the timeout, looks whether it is alive, and reads the queue; *)
(* the child runs the candidate, puts one message, and exits once the feeder  *)
(* thread of the queue has written the message to the pipe.  The deadline can *)
(* fall at any point of the child's run.                                      *)

\* what the import system does for a module outside the sandbox's control: the
\* modules the module itself imports when it is loaded (json loads _json and re,
\* re loads enum), with the builtins of their own module globals
ModuleImports(m) ==
    IF m = "json" THEN {"_json", "re"}
    ELSE IF m = "re" THEN {"enum"}
    ELSE {}

\* real_import(name, ...): the module and everything it imports in turn
RECURSIVE RealImport(_)
RealImport(m) == {m} \cup UNION { RealImport(d) : d \in ModuleImports(m) }

\* the import statements of a candidate, executed through guarded_import: the
\* modules loaded, and whether a SandboxError("Disallowed import") was raised
RECURSIVE GuardedImports(_, _, _)
GuardedImports(imports, allow, loaded) ==
    IF imports = <<>> THEN [loaded |-> loaded, raised |-> FALSE]
    ELSE IF << Head(imports) >> \notin Range(allow)
         THEN [loaded |-> loaded, raised |-> TRUE]
    ELSE GuardedImports(Tail(imports), allow, loaded \cup RealImport(Head(imports)))

\* a message of the queue: ("ok", res) or ("err", repr(e)); big is whether its
\* pickle exceeds what the pipe buffers, picklable whether it can be pickled
Msg(status, payload, big, picklable) ==
    [status |-> status, payload |-> payload, big |-> big, picklable |-> picklable]

NoMsg == Msg("none", "", FALSE, TRUE)

\* the candidates: the modules they import, and how their body ends: with a
\* value, a value too large for the pipe, a value that cannot be pickled, an
\* exception, an exit of the process (SystemExit is no Exception), or never
SandboxEndings == {"value", "big_value", "unpicklable", "raise", "exit", "loop"}

SandboxCands == [imports : {<<>>, <<"json">>, <<"os">>}, ending : SandboxEndings]

\* what _sandbox_target puts on the queue for a candidate that ends
TargetMsg(cand, allow) ==
    IF GuardedImports(cand.imports, allow, {}).raised
    THEN Msg("err", "SandboxError('Disallowed import')", FALSE, TRUE)
    ELSE IF cand.ending = "value" THEN Msg("ok", "1", FALSE, TRUE)
    ELSE IF cand.ending = "big_value" THEN Msg("ok", "aaa...", TRUE, TRUE)
    ELSE IF cand.ending = "unpicklable" THEN Msg("ok", "<generator>", FALSE, FALSE)
    ELSE Msg("err", "ValueError()", FALSE, TRUE)

\* whether the run of the candidate ends at all, and whether by leaving the process
Ends(cand, allow) == GuardedImports(cand.imports, allow, {}).raised \/ cand.ending # "loop"
Exits(cand, allow) == ~GuardedImports(cand.imports, allow, {}).raised /\ cand.ending = "exit"

\* a q.empty() that always answers no
QEmptyNever(chan) == FALSE

\* q.empty(): nothing to read from the pipe
QEmpty(chan) == chan = NoMsg

\* lines 101-104: the payload is returned, or raised as SandboxError(payload)
MsgOutcome(m) ==
    IF m.status = "ok" THEN [kind |-> "value", payload |-> m.payload]
    ELSE [kind |-> "error", payload |-> m.payload]

TimeoutOutcome == [kind |-> "infra", payload |-> "Timeout"]

NoResultOutcome == [kind |-> "infra", payload |-> "Sandbox process exited without result"]

NoSandboxOutcome == [kind |-> "none", payload |-> ""]

InitSandbox ==
    /\ fs = EmptyFs
    /\ htmlSeq = 0
    /\ failures = <<>>
    /\ impl = <<>>
    /\ wrapped = {}
    /\ cfg = <<>>
    /\ pc = [parent |-> "join", child |-> "run"]
    /\ call \in [cand : SandboxCands, buf : {NoMsg}, chan : {NoMsg}, loaded : {{}}]
    /\ outcome = NoSandboxOutcome
    /\ hist = [puts |-> 0, put |-> NoMsg, deadline |-> "none", putFirst |-> FALSE]

\* _runner up to the end of the candidate's call
ChildRun ==
    /\ pc.child = "run"
    /\ Ends(call.cand, Allow)
    /\ call' = [call EXCEPT !.loaded = GuardedImports(call.cand.imports, Allow, {}).loaded]
    /\ pc' = [pc EXCEPT !.child = IF Exits(call.cand, Allow) THEN "exit" ELSE "put"]
    /\ UNCHANGED <<fs, htmlSeq, failures, impl, wrapped, cfg, outcome, hist>>

\* q.put(...): the message is handed to the queue's feeder thread
ChildPut ==
    /\ pc.child = "put"
    /\ call' = [call EXCEPT !.buf = TargetMsg(call.cand, Allow)]
    /\ hist' = [hist EXCEPT !.puts = @ + 1, !.put = TargetMsg(call.cand, Allow),
                            !.putFirst = hist.deadline = "none"]
    /\ pc' = [pc EXCEPT !.child = "feed"]
    /\ UNCHANGED <<fs, htmlSeq, failures, impl, wrapped, cfg, outcome>>

\* the feeder thread pickles the message and writes it to the pipe; a message that
\* cannot be pickled is dropped, one that the pipe cannot buffer is not written
\* completely until the parent reads
ChildFeed ==
    /\ pc.child = "feed"
    /\ call.buf.big => pc.parent = "get"
    /\ call' = [call EXCEPT !.buf = NoMsg,
                            !.chan = IF call.buf.picklable THEN call.buf ELSE NoMsg]
    /\ pc' = [pc EXCEPT !.child = "exit"]
    /\ UNCHANGED <<fs, htmlSeq, failures, impl, wrapped, cfg, outcome, hist>>

\* the child process ends
ChildExit ==
    /\ pc.child = "exit"
    /\ pc' = [pc EXCEPT !.child = "dead"]
    /\ UNCHANGED <<fs, htmlSeq, failures, impl, wrapped, cfg, call, outcome, hist>>

\* p.join(timeout) returns because the child has ended
JoinEnded ==
    /\ pc.parent = "join"
    /\ pc.child = "dead"
    /\ pc' = [pc EXCEPT !.parent = "is_alive"]
    /\ UNCHANGED <<fs, htmlSeq, failures, impl, wrapped, cfg, call, outcome, hist>>

\* p.join(timeout) returns because the timeout has expired
JoinTimeout ==
    /\ pc.parent = "join"
    /\ pc.child # "dead"
    /\ pc' = [pc EXCEPT !.parent = "is_alive"]
    /\ hist' = [hist EXCEPT !.deadline = pc.child]
    /\ UNCHANGED <<fs, htmlSeq, failures, impl, wrapped, cfg, call, outcome>>

\* if p.is_alive(): p.terminate(); p.join(1.0); raise SandboxError("Timeout")
\* (the child has the default SIGTERM disposition and ends within the join)
CheckAlive ==
    /\ pc.parent = "is_alive"
    /\ IF pc.child # "dead"
       THEN /\ pc' = [parent |-> "done", child |-> "dead"]
            /\ outcome' = TimeoutOutcome
       ELSE /\ pc' = [pc EXCEPT !.parent = "empty"]
            /\ UNCHANGED outcome
    /\ UNCHANGED <<fs, htmlSeq, failures, impl, wrapped, cfg, call, hist>>

\* if q.empty(): raise SandboxError("Sandbox process exited without result")
CheckEmpty ==
    /\ pc.parent = "empty"
    /\ IF QEmpty(call.chan)
       THEN /\ pc' = [pc EXCEPT !.parent = "done"]
            /\ outcome' = NoResultOutcome
       ELSE /\ pc' = [pc EXCEPT !.parent = "get"]
            /\ UNCHANGED outcome
    /\ UNCHANGED <<fs, htmlSeq, failures, impl, wrapped, cfg, call, hist>>

\* status, payload = q.get() and what follows; q.get() blocks on an empty queue
Get ==
    /\ pc.parent = "get"
    /\ call.chan # NoMsg
    /\ outcome' = MsgOutcome(call.chan)
    /\ call' = [call EXCEPT !.chan = NoMsg]
    /\ pc' = [pc EXCEPT !.parent = "done"]
    /\ UNCHANGED <<fs, htmlSeq, failures, impl, wrapped, cfg, hist>>

NextSandbox ==
    \/ ChildRun
    \/ ChildPut
    \/ ChildFeed
    \/ ChildExit
    \/ JoinEnded
    \/ JoinTimeout
    \/ CheckAlive
    \/ CheckEmpty
    \/ Get

SpecSandbox == InitSandbox /\ [][NextSandbox]_vars

-----------------------------------------------------------------------------
(* Claims about the sandbox *)

\* exec_in_sandbox has returned or raised
SandboxDone == pc.parent = "done"

\* C14 (as stated): if the candidate is still running when the timeout expires,
\* exec_in_sandbox reports the timeout failure, never a value, and the child
\* process has ended when it returns.
C14_TimeoutAlwaysReported ==
    (SandboxDone /\ hist.deadline = "run") =>
        (outcome = TimeoutOutcome /\ pc.child = "dead")

\* C15: a call ends with the value the child sent, with a SandboxError carrying the
\* text the child sent, or with an infrastructure failure; the child puts at most
\* one message; the parent never reads an empty queue, and reports the
\* infrastructure failure for a child that ended without a message.
C15_OneOfThreeOutcomes ==
    /\ hist.puts <= 1
    /\ pc.parent = "get" => call.chan # NoMsg
    /\ SandboxDone =>
          \/ outcome.kind = "value" /\ hist.put.status = "ok"
                                     /\ outcome.payload = hist.put.payload
          \/ outcome.kind = "error" /\ hist.put.status = "err"
                                     /\ outcome.payload = hist.put.payload
          \/ outcome \in {TimeoutOutcome, NoResultOutcome}
    /\ (SandboxDone /\ hist.puts = 0) => outcome.kind = "infra"

\* C15 witness: the child left the process without a message, and the parent
\* reported that it exited without result
C15_Witness ==
    /\ SandboxDone
    /\ call.cand.ending = "exit"
    /\ hist.puts = 0
    /\ hist.deadline = "none"
    /\ outcome = NoResultOutcome

\* C16 (as stated): if the child put its message before the deadline,
\* exec_in_sandbox reports the outcome of that message, never a timeout and never
\* an exit without result, whatever the size of the result.
C16_NoOutcomeDropped ==
    (SandboxDone /\ hist.putFirst) => outcome = MsgOutcome(hist.put)

\* C18 (as stated): no module whose root is outside the allowlist is imported in
\* the child, neither directly by the candidate nor by a module it imported.
C18_OnlyAllowedModulesLoaded ==
    \A m \in call.loaded : \E k \in DOMAIN Allow : Allow[k] = <<m>>

-----------------------------------------------------------------------------
(* SpecImports: _validate_imports applied to definitions with one import     *)
(* statement of each form, under several allowlists                          *)

ImportRoots == {"json", "re", "os"}

\* import m / import m.b / from m import x / from m import dumps / from m.b import x
ImportStmts ==
    UNION { { <<"import ", m>>,
              <<"import ", m, ".", "b">>,
              <<"from ", m, " import ", "x">>,
              <<"from ", m, " import ", "dumps">>,
              <<"from ", m, ".", "b", " import ", "x">> } : m \in ImportRoots }
    \cup { <<"y = 2">> }

\* values of EvolverxConfig.allow_imports
AllowLists ==
    { <<>>, << <<"json">> >>, << <<"re">> >>, << <<"os">> >>,
      << <<"json">>, <<"re">> >>, << <<"json">>, <<"x">> >>,
      << <<"json">>, <<"dumps">>, <<"x">> >>, << <<"json", ".", "b">> >> }

\* the definition of f whose body is stmt followed by a return
ImportingDef(stmt) ==
    WrapAsFunction(<<"f">>, << Line(0, stmt, "LF"), Line(0, <<"return ", "1">>, "LF") >>)

InitImports ==
    /\ fs = EmptyFs
    /\ htmlSeq = 0
    /\ failures = <<>>
    /\ impl = <<>>
    /\ wrapped = {}
    /\ cfg = <<>>
    /\ pc = "imports"
    /\ call = <<>>
    /\ outcome = <<>>
    /\ hist = <<>>

\* _validate_imports(fn_src, allow) is called
ValidateImports(stmt, allow) ==
    /\ call' = [stmt |-> stmt, fn_src |-> ImportingDef(stmt), allow |-> allow]
    /\ outcome' = [rejected |-> DisallowedImport(ImportingDef(stmt), allow)]
    /\ UNCHANGED <<fs, htmlSeq, failures, impl, wrapped, cfg, pc, hist>>

NextImports == \E stmt \in ImportStmts : \E allow \in AllowLists : ValidateImports(stmt, allow)

SpecImports == InitImports /\ [][NextImports]_vars

\* C17 (as stated): the check accepts a definition exactly when the root of every
\* imported module is an entry of the allowlist, for import and from-import alike,
\* whatever the imported name is.
C17_AcceptsExactlyAllowedRoots ==
    call # <<>> =>
        LET rooted == call.stmt[1] \in {"import ", "from "}
            allowed == \E k \in DOMAIN call.allow : call.allow[k] = << call.stmt[2] >>
        IN  outcome.rejected <=> (rooted /\ ~allowed)

-----------------------------------------------------------------------------
(* SpecEnsure: the preparation of a round's candidate (_normalize_body,       *)
(* _ensure_imports, the parse with its one repair, _validate_imports) applied *)
(* to bodies with and without imports and module references, under several   *)
(* allowlists                                                                 *)

\* the statement a body ends with: no module reference, or a reference to json,
\* re, os or json.b by attribute access
EnsureStmts ==
    { <<"return ", "1">>,
      <<"return ", "json", ".", "dumps(x)">>,
      <<"return ", "re", ".", "sub(x)">>,
      <<"return ", "os", ".", "getcwd()">>,
      <<"return ", "json", ".", "b", ".", "f(x)">> }

\* the import statement a body starts with, if any (<<>> is none)
EnsureImportStmts ==
    { <<>>,
      <<"import ", "json">>,
      <<"import ", "json", ".", "b">>,
      <<"import ", "re", ", ", "json">>,
      <<"from ", "json", " import ", "dumps">>,
      <<"import ", "os">> }

\* the oracle's bodies
EnsureBodies ==
    { (IF imp = <<>> THEN <<>> ELSE << Line(0, imp, "LF") >>) \o << Line(0, stmt, "LF") >> :
          imp \in EnsureImportStmts, stmt \in EnsureStmts }

InitEnsure ==
    /\ fs = EmptyFs
    /\ htmlSeq = 0
    /\ failures = <<>>
    /\ impl = <<>>
    /\ wrapped = {}
    /\ cfg = <<>>
    /\ pc = "ensure"
    /\ call = <<>>
    /\ outcome = <<>>
    /\ hist = <<>>

\* _evolve from the oracle's answer to the import check
PrepareCandidate(raw, allow) ==
    LET body == NormalizeBody(raw)
        ensured == EnsureImports(body, allow)
        fn_src == WrapAsFunction(<<"f">>, ensured)
        repaired == WrapAsFunction(<<"f">>, RepairIndentation(ensured))
        src == IF Parses(fn_src) THEN fn_src ELSE repaired
    IN  /\ call' = [body |-> body, allow |-> allow, ensured |-> ensured, fn_src |-> src]
        /\ outcome' = [parsed |-> Parses(src),
                       rejected |-> Parses(src) /\ DisallowedImport(src, allow)]
        /\ UNCHANGED <<fs, htmlSeq, failures, impl, wrapped, cfg, pc, hist>>

NextEnsure == \E raw \in EnsureBodies : \E allow \in AllowLists : PrepareCandidate(raw, allow)

SpecEnsure == InitEnsure /\ [][NextEnsure]_vars

\* the modules an import statement names: every name of a plain import, the module
\* of a from-import
StatementModules(ln) ==
    IF Len(ln.s) >= 2 /\ ln.s[1] = "import "
    THEN { ln.s[2] } \cup { ln.s[k + 1] : k \in { j \in 2..(Len(ln.s) - 1) : ln.s[j] = ", " } }
    ELSE IF Len(ln.s) >= 2 /\ ln.s[1] = "from " THEN { ln.s[2] }
    ELSE {}

\* body has an import statement, plain or from-style, of the module m or of a
\* module below its root
ModuleImported(body, m) == \E i \in DOMAIN body : Head(m) \in StatementModules(body[i])

\* body has an attribute access on the module m: its name followed by a dot
ModuleReferenced(body, m) ==
    \E i \in DOMAIN body : \E k \in 1..(Len(body[i].s) - Len(m)) :
        /\ SubSeq(body[i].s, k, k + Len(m) - 1) = m
        /\ body[i].s[k + Len(m)] = "."

\* the lines _ensure_imports put before the body
InsertedLines == SubSeq(call.ensured, 1, Len(call.ensured) - Len(call.body))

\* C23 (as stated): the body follows the inserted lines unchanged; each inserted line
\* is "import <module>" for a module of the allowlist that the body does not import;
\* every module of the allowlist that the body references by attribute access
\* without importing it is inserted; and the parse and the import check are applied
\* to the result.
C23_InsertsMissingAllowedImports ==
    call # <<>> =>
        LET inserted == { Tail(InsertedLines[i].s) : i \in DOMAIN InsertedLines }
        IN  /\ call.ensured = InsertedLines \o call.body
            /\ \A i \in DOMAIN InsertedLines :
                  InsertedLines[i].ind = 0 /\ Head(InsertedLines[i].s) = "import "
            /\ \A k \in DOMAIN call.allow :
                  (ModuleReferenced(call.body, call.allow[k])
                      /\ ~ModuleImported(call.body, call.allow[k]))
                  => call.allow[k] \in inserted
            /\ \A m \in inserted : ~ModuleImported(call.body, m)
            /\ \A m \in inserted : m \in Range(call.allow)
            /\ call.fn_src \in { WrapAsFunction(<<"f">>, call.ensured),
                                  WrapAsFunction(<<"f">>, RepairIndentation(call.ensured)) }

\* C29 (as stated): under every allowlist, each line that _ensure_imports puts
\* before the body is accepted by _validate_imports under the same allowlist.
C29_InsertedImportsAccepted ==
    call # <<>> =>
        \A i \in DOMAIN InsertedLines :
            ~DisallowedImport(WrapAsFunction(<<"f">>, << InsertedLines[i] >>), call.allow)

====
